---- MODULE Spec2Model ----
(***************************************************************************)
(* Textosaurus: the Application singleton (single-instance messaging,      *)
(* session commit, quit/restart, tray icon) and ApplicationException.      *)
(*                                                                         *)
(* Three specifications share the variables:                               *)
(*   Spec     the application's lifecycle: main form, tray icon, session   *)
(*            commit, quitApplication()/restart(), onAboutToQuit();        *)
(*   SpecMsg  single-instance messaging: isRunning() in a second process,  *)
(*            processExecutionMessage() in the running one;                *)
(*   SpecExc  ApplicationException objects.                                *)
(* The toolkit runs every handler on the one GUI thread, so a handler is   *)
(* one action; quitApplication() is split at the call of the main form's   *)
(* close() and onAboutToQuit() at processEvents(), the two places where    *)
(* other code of the program runs inside the handler.                      *)
(***************************************************************************)
EXTENDS Integers, Sequences, FiniteSets, TLC

\* ---------------------------------------------------------------- bounds
MaxArgs == 2       \* arguments after the program name
MaxStrLen == 1     \* characters of one argument
MaxRawLen == 3     \* characters of a message sent by some other sender
MaxIcons == 2      \* tray icons ever created
MaxExc == 2        \* ApplicationException objects ever constructed

\* --------------------------------------------------------------- strings
\* A QString is a sequence of characters.  "n" stands for the separator
\* character, "r" and "q" for the texts of the two tokens, "a" for any
\* other character.
SepChar == "n"
Chars == {"a", "q", "r", SepChar}

\* The three macros are defined in definitions.h, which is not part of the
\* sources at hand; only that they are three distinct fixed strings is used.
ARGUMENTS_LIST_SEPARATOR == <<SepChar>>
APP_IS_RUNNING == <<"r">>
APP_QUIT_INSTANCE == <<"q">>

StringsUpTo(n) == UNION {[1..k -> Chars] : k \in 0..n}
ArgStrings == StringsUpTo(MaxStrLen)
ProgNames == {<<"a">>, APP_QUIT_INSTANCE}
\* QCoreApplication::arguments(): the program name, then the arguments.
ArgLists == UNION {{<<p>> \o l : l \in [1..k -> ArgStrings]} : p \in ProgNames, k \in 0..MaxArgs}
RawMessages == StringsUpTo(MaxRawLen)

\* QStringList::join(separator)
RECURSIVE Join(_)
Join(list) ==
  IF list = <<>> THEN <<>>
  ELSE IF Len(list) = 1 THEN list[1]
  ELSE list[1] \o ARGUMENTS_LIST_SEPARATOR \o Join(Tail(list))

\* QString::split(separator), empty parts kept: cur is the part being read.
RECURSIVE SplitFrom(_, _)
SplitFrom(s, cur) ==
  IF s = <<>> THEN <<cur>>
  ELSE IF <<Head(s)>> = ARGUMENTS_LIST_SEPARATOR
       THEN <<cur>> \o SplitFrom(Tail(s), <<>>)
       ELSE SplitFrom(Tail(s), Append(cur, Head(s)))

Split(s) == SplitFrom(s, <<>>)

\* QStringList::contains(str)
Contains(list, str) == \E i \in 1..Len(list) : list[i] = str

\* QList::mid(pos)
Mid(list, pos) == SubSeq(list, pos + 1, Len(list))

\* isRunning(): the text handed to sendMessage().
IsRunningMessage(arguments) == Join(<<APP_IS_RUNNING>> \o Mid(arguments, 1))

\* ----------------------------------------------------------------- state
NULL == 0          \* nullptr; an object is identified by a number >= 1
main_form == 1     \* the FormMain handed to setMainForm()

VARIABLES
  m_mainForm,             \* NULL or main_form
  m_trayIcon,             \* NULL or the icon
  m_shouldRestart,
  m_isQuitting,
  quitOnLastWindowClosed, \* the toolkit's property
  quitRequested,          \* quit() was called
  mainFormVisible,
  liveIcons,              \* SystemTrayIcon objects constructed and not deleted
  iconsCreated,           \* how many were ever constructed
  shownIcons,             \* icons show() was called on
  lastReturned,           \* what trayIcon() returned last, NULL after a deletion
  firstRun,               \* settings: General/first_run
  firstRunVersion,        \* settings: General/first_run_<version>
  pc,                     \* "idle", or "closing": inside m_mainForm->close()
  closeResult,            \* of the last quitApplication(): "none", "noform", "refused", "closed"
  aq,                     \* onAboutToQuit(): "no", "events" (inside processEvents()), "done"
  aqTrace,                \* the calls onAboutToQuit() made, in order
  msgProcessing,          \* messageReceived is connected
  channel,                \* <<>> or <<the message sent to this instance>>
  delivery,               \* of that message: "none", "sent", "processed"
  loadedArgs,             \* <<>> or <<the list handed to loadFilesFromArgs for it>>
  sm,                     \* the QSessionManager of the last commit request
  excs,                   \* the ApplicationException objects
  lastOp,                 \* the handler that ran last
  trace                   \* the calls it made, in order

appVars == <<m_mainForm, m_trayIcon, m_shouldRestart, m_isQuitting>>
qtVars == <<quitOnLastWindowClosed, quitRequested, mainFormVisible>>
trayVars == <<liveIcons, iconsCreated, shownIcons, lastReturned>>
settingsVars == <<firstRun, firstRunVersion>>
quitVars == <<pc, closeResult>>
aqVars == <<aq, aqTrace>>
msgVars == <<msgProcessing, channel, delivery, loadedArgs>>
opVars == <<lastOp, trace>>
vars == <<appVars, qtVars, trayVars, settingsVars, quitVars, aqVars, msgVars, sm, excs, opVars>>

NoManager == [hint |-> "none", allows |-> FALSE, reported |-> "none", released |-> 0, cancelled |-> 0]

\* Application::Application, lines 21-45.  The settings hold whatever an
\* earlier run left.
Init ==
  /\ m_mainForm = NULL
  /\ m_trayIcon = NULL
  /\ m_shouldRestart = FALSE
  /\ m_isQuitting = FALSE
  /\ quitOnLastWindowClosed = TRUE
  /\ quitRequested = FALSE
  /\ mainFormVisible = FALSE
  /\ liveIcons = {}
  /\ iconsCreated = 0
  /\ shownIcons = {}
  /\ lastReturned = NULL
  /\ firstRun \in BOOLEAN
  /\ firstRunVersion \in BOOLEAN
  /\ pc = "idle"
  /\ closeResult = "none"
  /\ aq = "no"
  /\ aqTrace = <<>>
  /\ msgProcessing = FALSE
  /\ channel = <<>>
  /\ delivery = "none"
  /\ loadedArgs = <<>>
  /\ sm = NoManager
  /\ excs = <<>>
  /\ lastOp = "constructor"
  /\ trace = <<>>

\* A handler can be entered: the process has not ended, and the GUI thread
\* is not inside the main form's close().
CanRun == pc = "idle" /\ aq # "done"


\* do(op, calls): the bookkeeping of a handler that made these calls.
Did(op, calls) == lastOp' = op /\ trace' = calls

\* -------------------------------------------------------- main form, quit
\* Application::setMainForm, lines 183-185
SetMainForm ==
  /\ CanRun
  /\ m_mainForm' = main_form
  /\ Did("setMainForm", <<>>)
  /\ UNCHANGED <<m_trayIcon, m_shouldRestart, m_isQuitting, qtVars, trayVars,
                 settingsVars, quitVars, aqVars, msgVars, sm, excs>>

\* quitApplication() up to the call of m_mainForm->close(), lines 272-274.
\* With no main form the function does nothing.
QuitEnter ==
  IF m_mainForm # NULL
  THEN /\ m_isQuitting' = TRUE
       /\ pc' = "closing"
       /\ closeResult' = "none"
  ELSE /\ closeResult' = "noform"
       /\ UNCHANGED <<m_isQuitting, pc>>

\* Application::quitApplication, lines 271-284, called directly.
QuitApplication ==
  /\ CanRun
  /\ QuitEnter
  /\ Did("quitApplication", <<>>)
  /\ UNCHANGED <<m_mainForm, m_trayIcon, m_shouldRestart, qtVars, trayVars,
                 settingsVars, aqVars, msgVars, sm, excs>>

\* Application::restart, lines 315-318
Restart ==
  /\ CanRun
  /\ m_shouldRestart' = TRUE
  /\ QuitEnter
  /\ Did("restart", <<>>)
  /\ UNCHANGED <<m_mainForm, m_trayIcon, qtVars, trayVars,
                 settingsVars, aqVars, msgVars, sm, excs>>

\* QuitLeave without line 281.
QuitLeave_KeepsRestart(closed) ==
  IF closed
  THEN /\ quitRequested' = TRUE
       /\ trace' = trace \o <<"close", "quit">>
       /\ closeResult' = "closed"
       /\ UNCHANGED <<m_isQuitting, m_shouldRestart>>
  ELSE /\ m_isQuitting' = FALSE
       /\ trace' = trace \o <<"close">>
       /\ closeResult' = "refused"
       /\ UNCHANGED <<quitRequested, m_shouldRestart>>

\* quitApplication() after close() returned, lines 276-282.
QuitLeave(closed) ==
  IF closed
  THEN /\ quitRequested' = TRUE
       /\ trace' = trace \o <<"close", "quit">>
       /\ closeResult' = "closed"
       /\ UNCHANGED <<m_isQuitting, m_shouldRestart>>
  ELSE /\ m_isQuitting' = FALSE
       /\ m_shouldRestart' = FALSE
       /\ trace' = trace \o <<"close">>
       /\ closeResult' = "refused"
       /\ UNCHANGED quitRequested

\* The main form's close() returns; a closed form is hidden.
CloseReturns ==
  /\ pc = "closing"
  /\ \E closed \in BOOLEAN :
       /\ QuitLeave(closed)
       /\ mainFormVisible' = (mainFormVisible /\ ~closed)
  /\ pc' = "idle"
  /\ UNCHANGED <<m_mainForm, m_trayIcon, quitOnLastWindowClosed, trayVars,
                 settingsVars, aqVars, msgVars, sm, excs, lastOp>>

\* QCoreApplication::quit(), the slot the program calls at line 277, invoked
\* by anything else (the session ending, the last window closing).
QuitSlot ==
  /\ CanRun
  /\ quitRequested' = TRUE
  /\ Did("quit", <<"quit">>)
  /\ UNCHANGED <<appVars, quitOnLastWindowClosed, mainFormVisible, trayVars,
                 settingsVars, quitVars, aqVars, msgVars, sm, excs>>

\* ------------------------------------------------------------- messaging
\* Application::activateQtSingleMsgProcessing, lines 47-49
ActivateQtSingleMsgProcessing ==
  /\ CanRun
  /\ msgProcessing' = TRUE
  /\ Did("activateQtSingleMsgProcessing", <<>>)
  /\ UNCHANGED <<appVars, qtVars, trayVars, settingsVars, quitVars, aqVars,
                 channel, delivery, loadedArgs, sm, excs>>

\* Application::isRunning, lines 51-53, in a second process started with
\* these arguments: the message goes to this, the running, instance.
SecondInvocation ==
  /\ delivery = "none"
  /\ aq # "done"
  /\ \E arguments \in ArgLists :
       channel' = <<[text |-> IsRunningMessage(arguments), origin |-> "isRunning"]>>
  /\ delivery' = "sent"
  /\ UNCHANGED <<appVars, qtVars, trayVars, settingsVars, quitVars, aqVars,
                 msgProcessing, loadedArgs, sm, excs, opVars>>

\* Any other text sent to the instance (the quit-instance request is one).
OtherSender ==
  /\ delivery = "none"
  /\ aq # "done"
  /\ \E text \in RawMessages :
       channel' = <<[text |-> text, origin |-> "other"]>>
  /\ delivery' = "sent"
  /\ UNCHANGED <<appVars, qtVars, trayVars, settingsVars, quitVars, aqVars,
                 msgProcessing, loadedArgs, sm, excs, opVars>>

\* Branch with the two tests in the other order.
Branch_RunningFirst(messages) ==
  IF Contains(messages, APP_IS_RUNNING) THEN "load"
  ELSE IF Contains(messages, APP_QUIT_INSTANCE) THEN "quit"
  ELSE "none"

\* The branch of processExecutionMessage taken for these parts, lines 222-230.
Branch(messages) ==
  IF Contains(messages, APP_QUIT_INSTANCE) THEN "quit"
  ELSE IF Contains(messages, APP_IS_RUNNING) THEN "load"
  ELSE "none"

\* Application::processExecutionMessage, lines 218-231.  The load branch
\* dereferences mainForm() unconditionally: the handler runs from the event
\* loop, which is entered with the main form set.
ProcessExecutionMessage ==
  /\ CanRun
  /\ msgProcessing
  /\ delivery = "sent"
  /\ LET messages == Split(channel[1].text) IN
       CASE Branch(messages) = "quit" ->
              /\ QuitEnter
              /\ Did("processExecutionMessage", <<"quitApplication">>)
              /\ UNCHANGED <<loadedArgs, mainFormVisible>>
         [] Branch(messages) = "load" ->
              /\ m_mainForm # NULL
              /\ loadedArgs' = <<messages>>
              /\ mainFormVisible' = TRUE
              /\ Did("processExecutionMessage", <<"loadFilesFromArgs", "display">>)
              /\ UNCHANGED <<m_isQuitting, quitVars>>
         [] OTHER ->
              /\ Did("processExecutionMessage", <<>>)
              /\ UNCHANGED <<loadedArgs, mainFormVisible, m_isQuitting, quitVars>>
  /\ delivery' = "processed"
  /\ UNCHANGED <<channel, m_mainForm, m_trayIcon, m_shouldRestart, quitOnLastWindowClosed,
                 quitRequested, trayVars, settingsVars, aqVars, msgProcessing, sm, excs>>

\* messageReceived is emitted with nothing connected to it (the connection
\* is made only by activateQtSingleMsgProcessing, lines 47-49): the message
\* is lost.
DropMessage ==
  /\ ~msgProcessing
  /\ delivery = "sent"
  /\ delivery' = "none"
  /\ channel' = <<>>
  /\ UNCHANGED <<appVars, qtVars, trayVars, settingsVars, quitVars, aqVars,
                 msgProcessing, loadedArgs, sm, excs, opVars>>

\* sendMessage() returns in the sender, which exits: the exchange is over.
SendMessageReturns ==
  /\ delivery = "processed"
  /\ delivery' = "none"
  /\ channel' = <<>>
  /\ loadedArgs' = <<>>
  /\ UNCHANGED <<appVars, qtVars, trayVars, settingsVars, quitVars, aqVars,
                 msgProcessing, sm, excs, opVars>>

NextMsg ==
  \/ SetMainForm
  \/ ActivateQtSingleMsgProcessing
  \/ SecondInvocation
  \/ OtherSender
  \/ ProcessExecutionMessage
  \/ DropMessage
  \/ SendMessageReturns
  \/ CloseReturns

\* The settings of a run after the first; no action of NextMsg reads them.
InitMsg == Init /\ ~firstRun /\ ~firstRunVersion

SpecMsg == InitMsg /\ [][NextMsg]_vars


\* ------------------------------------------------------------- tray icon
\* TrayIconValue without the test of line 146.
TrayIconValue_AlwaysNew == iconsCreated + 1

\* What trayIcon() returns, lines 146-180: the icon at hand, or a new one.
TrayIconValue == IF m_trayIcon = NULL THEN iconsCreated + 1 ELSE m_trayIcon

\* Application::trayIcon, lines 145-181.  Creating the icon dereferences
\* m_mainForm (lines 163-168).
EnsureTrayIcon ==
  /\ m_trayIcon = NULL => (m_mainForm # NULL /\ iconsCreated < MaxIcons)
  /\ m_trayIcon' = TrayIconValue
  /\ liveIcons' = liveIcons \cup {TrayIconValue}
  /\ iconsCreated' = IF m_trayIcon = NULL THEN iconsCreated + 1 ELSE iconsCreated
  /\ lastReturned' = TrayIconValue

\* trayIcon() called from outside the class.
TrayIcon ==
  /\ CanRun
  /\ EnsureTrayIcon
  /\ Did("trayIcon", <<>>)
  /\ UNCHANGED <<m_mainForm, m_shouldRestart, m_isQuitting, qtVars, shownIcons,
                 settingsVars, quitVars, aqVars, msgVars, sm, excs>>

\* Application::showTrayIcon, lines 128-131
ShowTrayIcon ==
  /\ CanRun
  /\ EnsureTrayIcon
  /\ shownIcons' = shownIcons \cup {TrayIconValue}
  /\ Did("showTrayIcon", <<"show">>)
  /\ UNCHANGED <<m_mainForm, m_shouldRestart, m_isQuitting, qtVars,
                 settingsVars, quitVars, aqVars, msgVars, sm, excs>>

\* Application::showGuiMessage, lines 233-242; activated is the answer of
\* SystemTrayIcon::isSystemTrayActivated().
ShowGuiMessage ==
  /\ CanRun
  /\ \E activated \in BOOLEAN :
       IF activated
       THEN EnsureTrayIcon /\ Did("showGuiMessage", <<"showMessage">>)
       ELSE UNCHANGED <<m_trayIcon, liveIcons, iconsCreated, lastReturned>>
            /\ Did("showGuiMessage", <<"displayOutput">>)
  /\ UNCHANGED <<m_mainForm, m_shouldRestart, m_isQuitting, qtVars, shownIcons,
                 settingsVars, quitVars, aqVars, msgVars, sm, excs>>

\* Application::deleteTrayIcon, lines 133-143
DeleteTrayIcon ==
  /\ CanRun
  /\ IF m_trayIcon # NULL
     THEN /\ m_mainForm # NULL
          /\ mainFormVisible' = TRUE
          /\ liveIcons' = liveIcons \ {m_trayIcon}
          /\ shownIcons' = shownIcons \ {m_trayIcon}
          /\ m_trayIcon' = NULL
          /\ lastReturned' = NULL
          /\ quitOnLastWindowClosed' = TRUE
          /\ Did("deleteTrayIcon", <<"display", "delete", "setQuitOnLastWindowClosed">>)
          /\ UNCHANGED iconsCreated
     ELSE /\ Did("deleteTrayIcon", <<>>)
          /\ UNCHANGED <<mainFormVisible, trayVars, m_trayIcon, quitOnLastWindowClosed>>
  /\ UNCHANGED <<m_mainForm, m_shouldRestart, m_isQuitting, quitRequested,
                 settingsVars, quitVars, aqVars, msgVars, sm, excs>>

\* The icon is clicked: the callback of lines 173-175, switchVisibility().
TrayIconActivated ==
  /\ CanRun
  /\ m_trayIcon # NULL
  /\ mainFormVisible' = ~mainFormVisible
  /\ Did("trayIconActivated", <<"switchVisibility">>)
  /\ UNCHANGED <<appVars, quitOnLastWindowClosed, quitRequested, trayVars,
                 settingsVars, quitVars, aqVars, msgVars, sm, excs>>

\* An entry of the tray menu is chosen: the connection of lines 155-157.
TrayMenuTriggered ==
  /\ CanRun
  /\ m_trayIcon # NULL
  /\ mainFormVisible' = TRUE
  /\ Did("trayMenuTriggered", <<"display">>)
  /\ UNCHANGED <<appVars, quitOnLastWindowClosed, quitRequested, trayVars,
                 settingsVars, quitVars, aqVars, msgVars, sm, excs>>

\* The toolkit's property is switched off by the code that lets the program
\* live in the tray; deleteTrayIcon() (line 141) switches it back on.
DisableQuitOnLastWindowClosed ==
  /\ CanRun
  /\ quitOnLastWindowClosed' = FALSE
  /\ Did("setQuitOnLastWindowClosed", <<>>)
  /\ UNCHANGED <<appVars, quitRequested, mainFormVisible, trayVars,
                 settingsVars, quitVars, aqVars, msgVars, sm, excs>>

\* -------------------------------------------------------- session manager
RestartHints == {"RestartIfRunning", "RestartAnyway", "RestartImmediately", "RestartNever"}

\* The slot connected to dataSaveRequested writes *ok; it belongs to
\* TextApplication, created by the constructor (line 24).
DataSaveSlotConnected == TRUE

\* CommitCalls with the test of line 259 inverted.
CommitCalls_CancelWhenSaved(allows, ok) ==
  <<"setRestartHint">>
    \o (IF allows
        THEN <<"dataSaveRequested", "release">> \o (IF ok THEN <<"cancel">> ELSE <<>>)
        ELSE <<>>)

\* The calls onCommitData() makes on a manager, lines 250-263; ok is the
\* local of line 254 as read at line 259.
CommitCalls(allows, ok) ==
  <<"setRestartHint">>
    \o (IF allows
        THEN <<"dataSaveRequested", "release">> \o (IF ~ok THEN <<"cancel">> ELSE <<>>)
        ELSE <<>>)

Count(calls, c) == Cardinality({i \in 1..Len(calls) : calls[i] = c})

\* Application::onCommitData, lines 248-264.  saved is what the slot reports
\* through *ok; with no slot connected ok would be read uninitialised.
OnCommitData ==
  /\ CanRun
  /\ \E hint \in RestartHints, allows \in BOOLEAN, saved \in BOOLEAN :
       \E ok \in (IF DataSaveSlotConnected THEN {saved} ELSE BOOLEAN) :
         /\ Did("onCommitData", CommitCalls(allows, ok))
         /\ sm' = [hint |-> IF Count(CommitCalls(allows, ok), "setRestartHint") > 0
                            THEN "RestartNever" ELSE hint,
                   allows |-> allows,
                   reported |-> IF ~allows THEN "none" ELSE IF saved THEN "saved" ELSE "unsaved",
                   released |-> Count(CommitCalls(allows, ok), "release"),
                   cancelled |-> Count(CommitCalls(allows, ok), "cancel")]
  /\ UNCHANGED <<appVars, qtVars, trayVars, settingsVars, quitVars, aqVars,
                 msgVars, excs>>

\* Application::onSaveState, lines 266-269
OnSaveState ==
  /\ CanRun
  /\ \E allows \in BOOLEAN :
       sm' = [hint |-> "RestartNever", allows |-> allows, reported |-> "none",
              released |-> 0, cancelled |-> 0]
  /\ Did("onSaveState", <<"setRestartHint">>)
  /\ UNCHANGED <<appVars, qtVars, trayVars, settingsVars, quitVars, aqVars,
                 msgVars, excs>>

\* ---------------------------------------------------------- onAboutToQuit
\* Application::onAboutToQuit, lines 287-289: up to processEvents(), inside
\* which pending handlers run.  aboutToQuit is emitted once, when the event
\* loop has been told to end.
AboutToQuitEnter ==
  /\ pc = "idle"
  /\ aq = "no"
  /\ quitRequested
  /\ firstRun' = FALSE
  /\ firstRunVersion' = FALSE
  /\ aq' = "events"
  /\ aqTrace' = <<"eliminateFirstRun", "eliminateFirstRunVersion", "processEvents">>
  /\ Did("onAboutToQuit", <<>>)
  /\ UNCHANGED <<appVars, qtVars, trayVars, quitVars, msgVars, sm, excs>>

\* AboutToQuitCalls without line 303.
AboutToQuitCalls_NoFinish ==
  (IF m_mainForm # NULL THEN <<"saveSize">> ELSE <<>>)
    \o (IF m_shouldRestart THEN <<"startDetached">> ELSE <<>>)

\* The calls of lines 297-312.
AboutToQuitCalls ==
  (IF m_mainForm # NULL THEN <<"saveSize">> ELSE <<>>)
    \o (IF m_shouldRestart THEN <<"finish", "startDetached">> ELSE <<>>)

\* onAboutToQuit() after processEvents(), lines 291-313; the process ends.
AboutToQuitLeave ==
  /\ pc = "idle"
  /\ aq = "events"
  /\ aq' = "done"
  /\ aqTrace' = aqTrace \o AboutToQuitCalls
  /\ Did("onAboutToQuit", <<>>)
  /\ UNCHANGED <<appVars, qtVars, trayVars, settingsVars, quitVars,
                 msgVars, sm, excs>>

Next ==
  \/ SetMainForm
  \/ QuitApplication
  \/ Restart
  \/ CloseReturns
  \/ QuitSlot
  \/ TrayIcon
  \/ ShowTrayIcon
  \/ ShowGuiMessage
  \/ DeleteTrayIcon
  \/ TrayIconActivated
  \/ TrayMenuTriggered
  \/ DisableQuitOnLastWindowClosed
  \/ OnCommitData
  \/ OnSaveState
  \/ AboutToQuitEnter
  \/ AboutToQuitLeave

Spec == Init /\ [][Next]_vars


\* -------------------------------------------------- ApplicationException
ExcMessages == StringsUpTo(MaxStrLen)

\* NewException without the member initialiser.
NewException_NoInit(message) ==
  [m_message |-> <<>>, constructedWith |-> message, returned |-> <<>>]

\* ApplicationException::ApplicationException, line 5; constructedWith keeps
\* the argument for the record.
NewException(message) ==
  [m_message |-> message, constructedWith |-> message, returned |-> <<>>]

\* ApplicationException::message, lines 7-9
MessageOf(e) == e.m_message

Construct ==
  /\ Len(excs) < MaxExc
  /\ \E message \in ExcMessages : excs' = Append(excs, NewException(message))
  /\ UNCHANGED <<appVars, qtVars, trayVars, settingsVars, quitVars, aqVars,
                 msgVars, sm, opVars>>

\* message() is called on one of the objects; returned keeps its answer.
CallMessage ==
  /\ \E i \in 1..Len(excs) :
       excs' = [excs EXCEPT ![i].returned = <<MessageOf(excs[i])>>]
  /\ UNCHANGED <<appVars, qtVars, trayVars, settingsVars, quitVars, aqVars,
                 msgVars, sm, opVars>>

NextExc ==
  \/ Construct
  \/ CallMessage

SpecExc == Init /\ [][NextExc]_vars


\* ================================================================ claims
Has(calls, c) == \E i \in 1..Len(calls) : calls[i] = c
\* every call a comes before every call b
Before(calls, a, b) ==
  \A i, j \in 1..Len(calls) : (calls[i] = a /\ calls[j] = b) => i < j
\* everything but the record of the last handler
appState == <<appVars, qtVars, trayVars, settingsVars, quitVars, aqVars, msgVars, sm, excs>>

\* the message in the slot was handled by processExecutionMessage, which
\* was the last handler to run
Processed == delivery = "processed" /\ lastOp = "processExecutionMessage"

\* C1: whatever the arguments of the second invocation, once the message
\* isRunning() built from them has been processed, the running instance has
\* loaded files from it and displayed its main form, and has not started to
\* quit.
C1_Forwarding ==
  (Processed /\ channel[1].origin = "isRunning") =>
    /\ trace = <<"loadFilesFromArgs", "display">>
    /\ loadedArgs # <<>>
    /\ mainFormVisible
    /\ pc = "idle"

\* C2: processExecutionMessage decides by the membership of the two tokens
\* in the split message: with the quit token it calls quitApplication() and
\* neither loads nor displays; otherwise with the is-running token it hands
\* the whole split list to loadFilesFromArgs and then displays the main
\* form; with neither it does nothing.
C2_Outcome ==
  Processed =>
    LET parts == Split(channel[1].text) IN
      IF Contains(parts, APP_QUIT_INSTANCE)
      THEN /\ trace # <<>> /\ trace[1] = "quitApplication"
           /\ ~Has(trace, "loadFilesFromArgs") /\ ~Has(trace, "display")
           /\ loadedArgs = <<>>
      ELSE IF Contains(parts, APP_IS_RUNNING)
      THEN /\ trace = <<"loadFilesFromArgs", "display">>
           /\ loadedArgs = <<parts>>
           /\ mainFormVisible
      ELSE /\ trace = <<>>
           /\ loadedArgs = <<>>

\* C2, as a step: what the handler leaves alone in each of the three cases.
C2_Step ==
  (delivery = "sent" /\ delivery' = "processed") =>
    LET parts == Split(channel[1].text) IN
      IF Contains(parts, APP_QUIT_INSTANCE)
      THEN /\ UNCHANGED <<mainFormVisible, loadedArgs>>
           /\ m_mainForm # NULL => (pc' = "closing" /\ m_isQuitting')
      ELSE IF Contains(parts, APP_IS_RUNNING)
      THEN UNCHANGED <<appVars, quitVars, quitRequested>>
      ELSE UNCHANGED <<appVars, qtVars, trayVars, settingsVars, quitVars, aqVars,
                       msgProcessing, channel, loadedArgs, sm, excs>>

\* C2: processExecutionMessage decides by token membership only: the quit
\* token wins and leads to quitApplication() alone, else the is-running token
\* leads to loadFilesFromArgs(split list) and display(), else nothing happens.
C2_TokenMembership == [](C2_Outcome) /\ [][C2_Step]_vars

\* a message holding both tokens was processed: the instance is quitting
C2_Witness ==
  /\ Processed
  /\ Contains(Split(channel[1].text), APP_QUIT_INSTANCE)
  /\ Contains(Split(channel[1].text), APP_IS_RUNNING)
  /\ pc = "closing"

\* C3: message() of an exception returns the string it was constructed
\* with, and the stored message and the answers of message() never change.
C3_Returned ==
  \A i \in 1..Len(excs) :
    excs[i].returned # <<>> => excs[i].returned[1] = excs[i].constructedWith

\* C3, as a step: no operation changes an exception's message or an answer
\* message() gave.
C3_Step ==
  \A i \in 1..Len(excs) :
    /\ excs'[i].m_message = excs[i].m_message
    /\ excs'[i].constructedWith = excs[i].constructedWith
    /\ excs[i].returned # <<>> => excs'[i].returned = excs[i].returned

\* C3: an ApplicationException's message is fixed at construction: message()
\* returns the constructor's argument, now and at every later call.
C3_MessageFixed == [](C3_Returned) /\ [][C3_Step]_vars

\* message() was called on an exception made with a non-empty message, and
\* another exception was made after it
C3_Witness ==
  /\ Len(excs) = 2
  /\ excs[1].constructedWith # <<>>
  /\ excs[1].returned = <<excs[1].constructedWith>>
  /\ excs[2].constructedWith # excs[1].constructedWith

\* C4: after onCommitData the restart hint is RestartNever; the manager is
\* cancelled iff it allows interaction and the slot reported unsaved
\* documents; with interaction it is released exactly once, after the save
\* request and before any cancel; without interaction there is no save
\* request, no release and no cancel.
C4_CommitData ==
  lastOp = "onCommitData" =>
    /\ sm.hint = "RestartNever"
    /\ trace[1] = "setRestartHint"
    /\ (sm.cancelled > 0) <=> (sm.allows /\ sm.reported = "unsaved")
    /\ sm.cancelled <= 1
    /\ sm.allows =>
         /\ sm.released = 1
         /\ Count(trace, "dataSaveRequested") = 1
         /\ Before(trace, "dataSaveRequested", "release")
         /\ Before(trace, "release", "cancel")
    /\ ~sm.allows =>
         /\ ~Has(trace, "dataSaveRequested")
         /\ sm.released = 0
         /\ sm.cancelled = 0

\* a commit with interaction allowed and unsaved documents: cancelled
C4_Witness ==
  /\ lastOp = "onCommitData"
  /\ sm.allows
  /\ sm.reported = "unsaved"
  /\ trace = <<"setRestartHint", "dataSaveRequested", "release", "cancel">>

\* C5: inside the main form's close() isQuitting() is true; a refused close
\* leaves isQuitting() false and no restart pending, and quit() is not
\* called; after an accepted close quit() has been called and isQuitting()
\* is still true.
Returned == lastOp \in {"quitApplication", "restart"} /\ pc = "idle"

C5_State ==
  /\ pc = "closing" => m_isQuitting
  /\ (Returned /\ closeResult = "refused") =>
       (~m_isQuitting /\ ~m_shouldRestart /\ ~Has(trace, "quit"))
  /\ (Returned /\ closeResult = "closed") =>
       (m_isQuitting /\ quitRequested /\ Has(trace, "quit"))

\* C5, as a step: a refused close calls no quit().
C5_Step ==
  (pc = "closing" /\ closeResult' = "refused") => UNCHANGED quitRequested

\* C5: a refused close leaves the application running with isQuitting()
\* false and no restart pending; an accepted close requests quit() with
\* isQuitting() true; inside close() isQuitting() is true.
C5_QuitOrStay == [](C5_State) /\ [][C5_Step]_vars

\* restart() returned after the main form refused to close
C5_Witness ==
  /\ lastOp = "restart"
  /\ pc = "idle"
  /\ closeResult = "refused"
  /\ ~quitRequested

\* C6: when onAboutToQuit has run, startDetached was called iff a restart
\* was pending at line 302, and then after finish(); the two first-run
\* flags were cleared first, and the main form's size was saved (if a main
\* form is set) before finish() and startDetached().
C6_AboutToQuit ==
  aq = "done" =>
    /\ Has(aqTrace, "startDetached") <=> m_shouldRestart
    /\ Count(aqTrace, "startDetached") <= 1
    /\ m_shouldRestart =>
         (Has(aqTrace, "finish") /\ Before(aqTrace, "finish", "startDetached"))
    /\ SubSeq(aqTrace, 1, 2) = <<"eliminateFirstRun", "eliminateFirstRunVersion">>
    /\ ~firstRun /\ ~firstRunVersion
    /\ Has(aqTrace, "saveSize") <=> m_mainForm # NULL
    /\ Before(aqTrace, "saveSize", "finish")
    /\ Before(aqTrace, "saveSize", "startDetached")

\* the program ended with a restart pending
C6_Witness ==
  /\ aq = "done"
  /\ m_shouldRestart
  /\ aqTrace = <<"eliminateFirstRun", "eliminateFirstRunVersion", "processEvents",
                 "saveSize", "finish", "startDetached">>

\* C7: at most one tray icon exists, the one m_trayIcon points to; between
\* two deletions trayIcon() returns one and the same icon; deleteTrayIcon()
\* with an icon displays the main form, destroys the icon and sets
\* quit-on-last-window-closed; without an icon it changes nothing; an icon
\* created after a deletion is one that never existed before.
C7_State ==
  /\ Cardinality(liveIcons) <= 1
  /\ liveIcons = (IF m_trayIcon = NULL THEN {} ELSE {m_trayIcon})

\* C7, as a step: the effects of trayIcon() and deleteTrayIcon().
C7_Step ==
  /\ (lastReturned # NULL /\ lastReturned' # NULL) => lastReturned' = lastReturned
  /\ (lastOp' = "deleteTrayIcon" /\ m_trayIcon # NULL) =>
       /\ mainFormVisible'
       /\ m_trayIcon' = NULL
       /\ liveIcons' = {}
       /\ quitOnLastWindowClosed'
  /\ (lastOp' = "deleteTrayIcon" /\ m_trayIcon = NULL) => UNCHANGED appState
  /\ (m_trayIcon = NULL /\ m_trayIcon' # NULL) =>
       /\ m_trayIcon' \notin 1..iconsCreated
       /\ lastReturned' = m_trayIcon'

\* C7: the tray icon is a lazily created singleton, deleted and re-created
\* as described above.
C7_TraySingleton == [](C7_State) /\ [][C7_Step]_vars

\* a second icon was created after the first was deleted
C7_Witness ==
  /\ m_trayIcon = 2
  /\ liveIcons = {2}
  /\ lastOp \in {"trayIcon", "showTrayIcon", "showGuiMessage"}

====
